---- MODULE Spec2Model ----
(***************************************************************************)
(* Model of the langchain_2ly example scripts:                             *)
(*   examples/format_response.py  format_agent_response                    *)
(*   examples/langgraph_agent.py  module body and main                     *)
(*                                                                         *)
(* Text is a sequence of one-character strings.  An ANSI colour code, an   *)
(* emoji-led label and the timestamp are each one opaque element of such a *)
(* sequence.  Standard output is the sequence of texts handed to print;    *)
(* the terminal lines of one print are that text split on "\n".            *)
(***************************************************************************)
EXTENDS Integers, Sequences, FiniteSets, TLC

(* ------------------------------ bounds -------------------------------- *)
MaxMessages == 2
MaxToolCalls == 2

(* --------------------------- Python values ---------------------------- *)
\* A Python value as far as the scripts look at it: None, an int, a str.
PyNone == [t |-> "None", n |-> 0, s |-> <<>>]
PyInt(i) == [t |-> "int", n |-> i, s |-> <<>>]
PyStr(chars) == [t |-> "str", n |-> 0, s |-> chars]
\* The attribute (or the dict key) does not exist on the object.
Missing == [t |-> "missing", n |-> 0, s |-> <<>>]

\* bool(x) of a str-or-None value: None and "" are falsy.
Truthy(v) == v.t = "str" /\ Len(v.s) > 0

Digit == <<"0", "1", "2", "3", "4", "5", "6", "7", "8", "9">>
RECURSIVE IntStr(_)
\* str(i) for i >= 0, as an f-string field formats an int.
IntStr(i) == IF i < 10 THEN <<Digit[i + 1]>> ELSE IntStr(i \div 10) \o <<Digit[(i % 10) + 1]>>

\* An f-string replacement field {v}: str(v).
Format(v) ==
    CASE v.t = "int" -> IntStr(v.n)
      [] v.t = "str" -> v.s
      [] OTHER -> <<"N", "o", "n", "e">>

\* str.strip() removes these from both ends (the ASCII whitespace in use).
Whitespace == {" ", "\t", "\n", "\r"}

RECURSIVE LStrip(_)
LStrip(s) == IF s # <<>> /\ Head(s) \in Whitespace THEN LStrip(Tail(s)) ELSE s
RECURSIVE RStrip(_)
RStrip(s) == IF s # <<>> /\ s[Len(s)] \in Whitespace THEN RStrip(SubSeq(s, 1, Len(s) - 1)) ELSE s
\* str.strip()
Strip(s) == RStrip(LStrip(s))

RECURSIVE Split(_, _)
\* str.split(sep) for a one-character separator: always at least one piece.
Split(s, sep) ==
    IF \E i \in 1..Len(s) : s[i] = sep
    THEN LET i == CHOOSE j \in 1..Len(s) : s[j] = sep /\ \A k \in 1..(j - 1) : s[k] # sep
         IN  <<SubSeq(s, 1, i - 1)>> \o Split(SubSeq(s, i + 1, Len(s)), sep)
    ELSE <<s>>

(* ------------------------------ messages ------------------------------ *)
UsageKeys == {"input_tokens", "output_tokens", "total_tokens"}

\* A dict over the three usage keys; a key that is not in the dict maps to Missing.
Dict(i, o, t) == [input_tokens |-> i, output_tokens |-> o, total_tokens |-> t]
EmptyDict == Dict(Missing, Missing, Missing)
\* bool(d) of a dict: non-empty.
DictTruthy(d) == \E k \in UsageKeys : d[k] # Missing
\* d.get(k, default): the stored value, whatever it is, when the key exists.
DictGet(d, k, default) == IF d[k] # Missing THEN d[k] ELSE default

\* The usage_metadata attribute: missing, None, or a dict.
NoUsageAttr == [t |-> "missing", d |-> EmptyDict]
UsageNone == [t |-> "None", d |-> EmptyDict]
Usage(d) == [t |-> "dict", d |-> d]
\* bool(token_usage)
UsageTruthy(u) == u.t = "dict" /\ DictTruthy(u.d)

\* The tool_calls attribute: missing, None, or a list of tool-call records.
NoToolCallsAttr == [t |-> "missing", l |-> <<>>]
ToolCallsNone == [t |-> "None", l |-> <<>>]
ToolCallList(k) == [t |-> "list", l |-> [i \in 1..k |-> [name |-> "list_allowed_directories", id |-> i]]]
\* bool(message.tool_calls)
ToolCallsTruthy(tc) == tc.t = "list" /\ Len(tc.l) > 0

Msg(c, tc, u) == [content |-> c, tool_calls |-> tc, usage_metadata |-> u]
HasAttr(m, attr) == m[attr].t # "missing"

\* Message contents the agent may produce.
Texts ==
    { <<"a">>,
      <<" ", "b", "\t">>,
      <<"a", "\n", " ", "\n", " ", "b", "\r">> }
ContentValues == {Missing, PyNone, PyStr(<<>>)} \cup {PyStr(s) : s \in Texts}
ToolCallValues == {NoToolCallsAttr, ToolCallsNone} \cup {ToolCallList(k) : k \in 0..MaxToolCalls}
UsageValues ==
    { NoUsageAttr, UsageNone, Usage(EmptyDict),
      Usage(Dict(PyInt(5), PyInt(0), PyInt(5))),
      Usage(Dict(PyInt(5), PyInt(3), PyInt(8))),
      Usage(Dict(PyInt(12), Missing, Missing)),
      Usage(Dict(PyNone, PyInt(3), Missing)) }

\* The messages of a run: system, human and tool messages carry content only;
\* an AI message carries content (possibly ""), a tool-call list and
\* usage_metadata (None unless the provider reported it).
Messages ==
    {Msg(c, NoToolCallsAttr, NoUsageAttr) : c \in ContentValues}
    \cup {Msg(PyStr(<<>>), tc, UsageNone) : tc \in ToolCallValues}
    \cup {Msg(PyStr(<<"a">>), ToolCallList(0), u) : u \in UsageValues}
    \cup {Msg(PyNone, ToolCallList(1), NoUsageAttr),
          Msg(PyStr(<<>>), ToolCallList(1), Usage(Dict(PyInt(5), PyInt(0), PyInt(5))))}

RECURSIVE SeqsUpTo(_, _)
SeqsUpTo(S, k) ==
    IF k = 0 THEN {<<>>}
    ELSE LET shorter == SeqsUpTo(S, k - 1)
         IN  shorter \cup {Append(q, x) : q \in {r \in shorter : Len(r) = k - 1}, x \in S}

\* What agent.ainvoke returns: a dict that may lack the 'messages' key.
Responses ==
    {[has_messages |-> FALSE, messages |-> <<>>]}
    \cup {[has_messages |-> TRUE, messages |-> ms] : ms \in SeqsUpTo(Messages, MaxMessages)}

\* Questions handed to format_agent_response (user_prompt in the agent script).
Questions ==
    { <<"a">>,
      <<"a", "\n", "b">>,
      <<" ", "a", "\n", "\n", "b">> }

(* ----------------------- format_agent_response ------------------------ *)
\* messages = response.get('messages', [])
GetMessages(resp) == IF resp.has_messages THEN resp.messages ELSE <<>>

\* The condition of the reversed loop's if, with final_answer still None.
IsAnswer(m) == HasAttr(m, "content") /\ Truthy(m.content)

RECURSIVE FindFirstAnswer(_)
\* Mutant: the scan runs forward, so the first message with content wins.
FindFirstAnswer(msgs) ==
    IF msgs = <<>> THEN PyNone
    ELSE IF IsAnswer(Head(msgs)) THEN Head(msgs).content
    ELSE FindFirstAnswer(Tail(msgs))

RECURSIVE FindFinalAnswer(_)
\* for message in reversed(messages): take the first hit and break.
FindFinalAnswer(msgs) ==
    IF msgs = <<>> THEN PyNone
    ELSE IF IsAnswer(msgs[Len(msgs)]) THEN msgs[Len(msgs)].content
    ELSE FindFinalAnswer(SubSeq(msgs, 1, Len(msgs) - 1))

\* Mutant: a message with tool calls counts once, whatever the length of its list.
ToolCallsAddedOnce(m) ==
    IF HasAttr(m, "tool_calls") /\ ToolCallsTruthy(m.tool_calls) THEN 1 ELSE 0

\* What one message adds to tool_calls_count.
ToolCallsAdded(m) ==
    IF HasAttr(m, "tool_calls") /\ ToolCallsTruthy(m.tool_calls) THEN Len(m.tool_calls.l) ELSE 0

\* What token_usage is after one message.
UsageAfter(m, usage) == IF HasAttr(m, "usage_metadata") THEN m.usage_metadata ELSE usage

RECURSIVE CountLoop(_, _, _)
\* for message in messages: the forward loop, from (count, usage).
CountLoop(msgs, count, usage) ==
    IF msgs = <<>> THEN [count |-> count, usage |-> usage]
    ELSE CountLoop(Tail(msgs), count + ToolCallsAdded(Head(msgs)), UsageAfter(Head(msgs), usage))

\* One call of print: the statement it comes from and the text it writes.
Emit(stmt, text) == [stmt |-> stmt, text |-> text]
\* The terminal lines one print writes.
TerminalLines(e) == Split(e.text, "\n")

Indent == <<" ", " ", " ">>

HeaderPrints ==
    << Emit("rule", <<"\n", "BLUE", "=*80", "RESET">>),
       Emit("title", <<"BOLD", "BLUE", "2ly Agent Response", "RESET">>),
       Emit("rule", <<"BLUE", "=*80", "RESET">>),
       Emit("timestamp", <<"PURPLE", "Timestamp:", "RESET", " ", "datetime.now()">>),
       Emit("model", <<"PURPLE", "Model:", "RESET", " ", "gpt-4o-mini">>) >>

QuestionPrints(question) ==
    << Emit("question_title", <<"\n", "BOLD", "BLUE", "Question:", "RESET">>),
       Emit("question", <<"DARK_GREY">> \o Indent \o question \o <<"RESET">>) >>

\* Mutant: the line is tested stripped but printed as it is.
AnswerLinePrintUnstripped(line) ==
    IF Strip(line) # <<>>
    THEN Emit("answer_line", <<"DARK_GREY">> \o Indent \o line \o <<"RESET">>)
    ELSE Emit("answer_blank", <<>>)

\* The body of "for line in lines".
AnswerLinePrint(line) ==
    IF Strip(line) # <<>>
    THEN Emit("answer_line", <<"DARK_GREY">> \o Indent \o Strip(line) \o <<"RESET">>)
    ELSE Emit("answer_blank", <<>>)

AnswerPrints(answer) ==
    <<Emit("answer_title", <<"\n", "BOLD", "BLUE", "Answer:", "RESET">>)>>
    \o (IF Truthy(answer)
        THEN LET lines == Split(answer.s, "\n")
             IN  [i \in 1..Len(lines) |-> AnswerLinePrint(lines[i])]
        ELSE <<Emit("no_response", <<"RED">> \o Indent
                                   \o <<"N", "o", " ", "r", "e", "s", "p", "o", "n", "s", "e", " ",
                                        "f", "o", "u", "n", "d", "RESET">>)>>)

NA == PyStr(<<"N", "/", "A">>)

TokenPrint(stmt, label, usage, key) ==
    Emit(stmt, <<"PURPLE">> \o Indent \o <<label, "RESET", " ">> \o Format(DictGet(usage.d, key, NA)))

\* if token_usage:
ShowsTokens(usage) == UsageTruthy(usage)
\* Mutant: the tool-calls line is printed for a count of zero as well.
ShowsToolCallsFromZero(count) == count >= 0
\* if tool_calls_count > 0:
ShowsToolCalls(count) == count > 0

\* Mutant: only the messages with content are counted.
MessagesWithContent(msgs) == Cardinality({i \in 1..Len(msgs) : IsAnswer(msgs[i])})
\* len(messages) as printed.
MessageCount(msgs) == Len(msgs)

MetadataTitle == Emit("metadata_title", <<"\n", "BOLD", "BLUE", "Metadata:", "RESET">>)

MetadataPrints(usage, count, msgs) ==
    <<MetadataTitle>>
    \o (IF ShowsTokens(usage)
        THEN << TokenPrint("input_tokens", "Input tokens:", usage, "input_tokens"),
                TokenPrint("output_tokens", "Output tokens:", usage, "output_tokens"),
                TokenPrint("total_tokens", "Total tokens:", usage, "total_tokens") >>
        ELSE <<>>)
    \o (IF ShowsToolCalls(count)
        THEN <<Emit("tool_calls", <<"PURPLE">> \o Indent \o <<"Tool calls made:", "RESET", " ">>
                                  \o IntStr(count))>>
        ELSE <<>>)
    \o <<Emit("total_messages", <<"PURPLE">> \o Indent \o <<"Total messages:", "RESET", " ">>
                                \o IntStr(MessageCount(msgs)))>>

FooterPrints == <<Emit("rule", <<"BLUE", "=*80", "RESET", "\n">>)>>

(* ------------------------------- state -------------------------------- *)
VARIABLES
    pc,               \* where the script is
    token,            \* GITHUB_TOKEN is set
    exc,              \* the exception in flight, or "none"
    raised,           \* who raised, or "none"
    returned,         \* the collaborators that have returned normally
    agent_response,   \* what agent.ainvoke returned
    format_calls,     \* calls of format_agent_response so far
    user_question,    \* format_agent_response's parameter
    messages, final_answer, token_usage, tool_calls_count,  \* its locals
    out,              \* the prints of format_agent_response
    errors,           \* the error messages the script printed
    exit_code         \* the process's exit code, -1 while it runs

vars == <<pc, token, exc, raised, returned, agent_response, format_calls, user_question, messages,
          final_answer, token_usage, tool_calls_count, out, errors, exit_code>>

mainVars == <<token, exc, raised, returned, agent_response, errors, exit_code>>
localVars == <<user_question, messages, final_answer, token_usage, tool_calls_count>>

NoResponse == [has_messages |-> FALSE, messages |-> <<>>]

Init ==
    /\ pc = "module"
    /\ token \in BOOLEAN
    /\ exc = "none"
    /\ raised = "none"
    /\ returned = {}
    /\ agent_response = NoResponse
    /\ format_calls = 0
    /\ user_question = <<>>
    /\ messages = <<>>
    /\ final_answer = PyNone
    /\ token_usage = UsageNone
    /\ tool_calls_count = 0
    /\ out = <<>>
    /\ errors = <<>>
    /\ exit_code = -1

(* -------------------------- langgraph_agent.py ------------------------ *)
Outcomes == {"ok", "AuthenticationError", "Exception"}

\* Mutant: a raised exception does not leave the try body.
AfterCallSwallowing(outcome, next) == next
\* Where control goes when a collaborator returns or raises inside the try.
AfterCall(outcome, next) == IF outcome = "ok" THEN next ELSE "except"

\* Module body: the token check, then asyncio.run(main()).
LoadToken ==
    /\ pc = "module"
    /\ IF token
       THEN /\ pc' = "enter_adapter"
            /\ UNCHANGED <<errors, exit_code>>
       ELSE /\ pc' = "exited"
            /\ errors' = Append(errors, "Error: Please set the GITHUB_TOKEN environment variable")
            /\ exit_code' = 1
    /\ UNCHANGED <<token, exc, raised, returned, agent_response, format_calls, localVars, out>>

\* A collaborator at `at` returns (go to next) or raises (go to the except clauses).
Collaborate(at, who, next, outcome) ==
    /\ pc = at
    /\ pc' = AfterCall(outcome, next)
    /\ exc' = IF outcome = "ok" THEN exc ELSE outcome
    /\ raised' = IF outcome = "ok" THEN raised ELSE who
    /\ returned' = IF outcome = "ok" THEN returned \cup {who} ELSE returned

\* async with MCPAdapter("Langgraph Agent") as mcp:
EnterAdapter ==
    /\ \E outcome \in Outcomes : Collaborate("enter_adapter", "adapter", "get_tools", outcome)
    /\ UNCHANGED <<token, agent_response, format_calls, localVars, out, errors, exit_code>>

\* tools = await mcp.get_langchain_tools(); agent = create_react_agent(llm, tools)
GetTools ==
    /\ \E outcome \in Outcomes : Collaborate("get_tools", "tools", "invoke", outcome)
    /\ UNCHANGED <<token, agent_response, format_calls, localVars, out, errors, exit_code>>

\* agent_response = await agent.ainvoke(...)
Invoke ==
    /\ \E outcome \in Outcomes :
          /\ Collaborate("invoke", "agent", "call_format", outcome)
          /\ IF outcome = "ok"
             THEN \E r \in Responses : agent_response' = r
             ELSE UNCHANGED agent_response
    /\ UNCHANGED <<token, format_calls, localVars, out, errors, exit_code>>

\* format_agent_response(agent_response, user_prompt, model_name): the call and
\* the locals' initialisation.
CallFormat ==
    /\ pc = "call_format"
    /\ pc' = "find_answer"
    /\ format_calls' = format_calls + 1
    /\ \E q \in Questions : user_question' = q
    /\ messages' = GetMessages(agent_response)
    /\ final_answer' = PyNone
    /\ token_usage' = UsageNone
    /\ tool_calls_count' = 0
    /\ UNCHANGED <<mainVars, out>>

\* The reversed loop.
FindAnswer ==
    /\ pc = "find_answer"
    /\ pc' = "count"
    /\ final_answer' = FindFinalAnswer(messages)
    /\ UNCHANGED <<mainVars, format_calls, user_question, messages, token_usage,
                   tool_calls_count, out>>

\* The forward loop.
CountToolCalls ==
    /\ pc = "count"
    /\ pc' = "header"
    /\ LET r == CountLoop(messages, tool_calls_count, token_usage)
       IN  /\ tool_calls_count' = r.count
           /\ token_usage' = r.usage
    /\ UNCHANGED <<mainVars, format_calls, user_question, messages, final_answer, out>>

Emitted(next, prints) ==
    /\ pc' = next
    /\ out' = out \o prints
    /\ UNCHANGED <<mainVars, format_calls, localVars>>

\* Banner, timestamp and model.
EmitHeader ==
    /\ pc = "header"
    /\ Emitted("question", HeaderPrints)

EmitQuestion ==
    /\ pc = "question"
    /\ Emitted("answer", QuestionPrints(user_question))

EmitAnswer ==
    /\ pc = "answer"
    /\ Emitted("metadata", AnswerPrints(final_answer))

\* token_usage.get on a value that is no dict raises AttributeError inside
\* main's try, after the section title was printed.
EmitMetadata ==
    /\ pc = "metadata"
    /\ IF ShowsTokens(token_usage) /\ token_usage.t # "dict"
       THEN /\ pc' = "except"
            /\ exc' = "Exception"
            /\ raised' = "format_agent_response"
            /\ out' = Append(out, MetadataTitle)
            /\ UNCHANGED <<token, returned, agent_response, errors, exit_code, format_calls,
                           localVars>>
       ELSE Emitted("footer", MetadataPrints(token_usage, tool_calls_count, messages))

\* The closing banner; format_agent_response returns.
EmitFooter ==
    /\ pc = "footer"
    /\ Emitted("main_return", FooterPrints)

\* The async with block and main end; asyncio.run returns; the script ends.
MainReturn ==
    /\ pc = "main_return"
    /\ pc' = "exited"
    /\ exit_code' = 0
    /\ UNCHANGED <<token, exc, raised, returned, agent_response, format_calls, localVars, out, errors>>

\* except openai.AuthenticationError:
ExceptAuthenticationError ==
    /\ pc = "except"
    /\ exc = "AuthenticationError"
    /\ pc' = "exited"
    /\ errors' = Append(errors, "Error: Invalid API key.")
    /\ exit_code' = 1
    /\ UNCHANGED <<token, exc, raised, returned, agent_response, format_calls, localVars, out>>

\* except Exception as e:
ExceptException ==
    /\ pc = "except"
    /\ exc = "Exception"
    /\ pc' = "exited"
    /\ errors' = Append(errors, "An unexpected error occurred")
    /\ exit_code' = 1
    /\ UNCHANGED <<token, exc, raised, returned, agent_response, format_calls, localVars, out>>

Next ==
    \/ LoadToken
    \/ EnterAdapter
    \/ GetTools
    \/ Invoke
    \/ CallFormat
    \/ FindAnswer
    \/ CountToolCalls
    \/ EmitHeader
    \/ EmitQuestion
    \/ EmitAnswer
    \/ EmitMetadata
    \/ EmitFooter
    \/ MainReturn
    \/ ExceptAuthenticationError
    \/ ExceptException

Spec == Init /\ [][Next]_vars

(* ========================= properties checked ========================= *)
\* format_agent_response has run its reversed loop / its forward loop / to its end.
AnswerFound == format_calls = 1 /\ pc \notin {"find_answer"}
Counted == format_calls = 1 /\ pc \notin {"find_answer", "count"}
Rendered == format_calls = 1 /\ pc \in {"main_return", "exited"}

\* The run's message sequence as the agent returned it.
RunMessages == agent_response.messages

SetMax(S) == CHOOSE x \in S : \A y \in S : y <= x

\* A message whose content is present and non-empty.
NonEmptyContent(m) == m.content.t = "str" /\ m.content.s # <<>>
WithContent == {k \in 1..Len(RunMessages) : NonEmptyContent(RunMessages[k])}

\* C1: the final answer is exactly the content of the highest-indexed message
\* with non-empty content, and is absent (None) iff no message has any.
C1_FinalAnswerIsLastNonEmptyContent ==
    AnswerFound =>
        /\ (final_answer = PyNone) <=> (WithContent = {})
        /\ WithContent # {} => final_answer = RunMessages[SetMax(WithContent)].content

\* C1 witness: a message with content, preceded by other content and followed
\* by a message without content.
C1_Witness ==
    /\ AnswerFound
    /\ Len(RunMessages) = 2
    /\ NonEmptyContent(RunMessages[1])
    /\ ~NonEmptyContent(RunMessages[2])
    /\ final_answer = RunMessages[1].content

\* A message that carries usage metadata: a usage record, not None, not no attribute.
CarriesUsage(m) == m.usage_metadata.t = "dict"
WithUsage == {k \in 1..Len(RunMessages) : CarriesUsage(RunMessages[k])}

\* C2: the report's usage is the usage record of the highest-indexed message
\* that carries one, and absent iff none does; a later message without usage
\* metadata never clears it.
C2_UsageIsLastUsageBearing ==
    Counted =>
        /\ (token_usage = UsageNone) <=> (WithUsage = {})
        /\ WithUsage # {} => token_usage = RunMessages[SetMax(WithUsage)].usage_metadata

\* The number of tool-call records of a message; an absent or empty list counts 0.
NumToolCalls(m) == IF m.tool_calls.t = "list" THEN Len(m.tool_calls.l) ELSE 0

RECURSIVE SumOver(_, _)
SumOver(msgs, idx) ==
    IF idx = {} THEN 0
    ELSE LET k == CHOOSE x \in idx : TRUE
         IN  NumToolCalls(msgs[k]) + SumOver(msgs, idx \ {k})

IndexPermutations(n) == {p \in [1..n -> 1..n] : \A i, j \in 1..n : p[i] = p[j] => i = j}
Permuted(msgs, p) == [i \in 1..Len(msgs) |-> msgs[p[i]]]

\* C3: the tool-call count is the sum over all messages of the number of
\* tool-call records, is >= 0, and is the same for every permutation of the
\* message sequence.
C3_ToolCallCountIsOrderFreeSum ==
    Counted =>
        /\ tool_calls_count = SumOver(RunMessages, 1..Len(RunMessages))
        /\ tool_calls_count >= 0
        /\ \A p \in IndexPermutations(Len(RunMessages)) :
              CountLoop(Permuted(RunMessages, p), 0, UsageNone).count = tool_calls_count

\* C3 witness: two messages with different, non-zero numbers of tool calls.
C3_Witness ==
    /\ Counted
    /\ Len(RunMessages) = 2
    /\ NumToolCalls(RunMessages[1]) = 2
    /\ NumToolCalls(RunMessages[2]) = 1
    /\ tool_calls_count = 3

Stmts(stmt) == {i \in 1..Len(out) : out[i].stmt = stmt}
TokenStmts == {"input_tokens", "output_tokens", "total_tokens"}

RECURSIVE ParseInt(_)
\* The number a digit string denotes.
ParseInt(digits) ==
    IF digits = <<>> THEN 0
    ELSE 10 * ParseInt(SubSeq(digits, 1, Len(digits) - 1))
         + ((CHOOSE d \in 1..10 : Digit[d] = digits[Len(digits)]) - 1)

\* The value a metadata line shows: what follows "label RESET space".
Shown(e) == SubSeq(e.text, 8, Len(e.text))

\* C4: for an empty message sequence (also with no 'messages' entry) the report
\* is (absent, 0, absent, 0) and the rendering shows the 'No response found'
\* marker, no token line, no tool-call line and a total of 0 messages.
C4_EmptyRun ==
    (Rendered /\ RunMessages = <<>>) =>
        /\ final_answer = PyNone
        /\ tool_calls_count = 0
        /\ token_usage = UsageNone
        /\ Len(messages) = 0
        /\ Cardinality(Stmts("no_response")) = 1
        /\ \A t \in TokenStmts : Stmts(t) = {}
        /\ Stmts("tool_calls") = {}
        /\ \E i \in Stmts("total_messages") : Shown(out[i]) = <<"0">>

\* C4 witness: a rendered run whose response has no 'messages' entry.
C4_Witness == Rendered /\ ~agent_response.has_messages /\ pc = "exited"

\* The one print of statement stmt, when there is exactly one.
The(stmt) == out[CHOOSE i \in Stmts(stmt) : TRUE]

NAText == <<"N", "/", "A">>
UsagePresent == token_usage.t = "dict"

\* C5: rendering is total: it raises nothing and runs to the closing banner,
\* with the fixed placeholder for every absent optional field: the 'No response
\* found' marker for an absent answer and N/A for each sub-field missing from a
\* present usage record.
C5_TotalWithPlaceholders ==
    (format_calls = 1 /\ pc \in {"main_return", "exited", "except"}) =>
        /\ raised = "none"
        /\ exc = "none"
        /\ out # <<>> /\ out[Len(out)] = FooterPrints[1]
        /\ final_answer = PyNone => Stmts("no_response") # {}
        /\ \A k \in UsageKeys :
              (UsagePresent /\ token_usage.d[k] = Missing) =>
                  \E i \in Stmts(k) : Shown(out[i]) = NAText

\* The part of C5 that does not depend on the sub-field placeholders: no error
\* is raised and the closing banner is always reached.
C5_NoErrorAndClosingBanner ==
    (format_calls = 1 /\ pc \in {"main_return", "exited", "except"}) =>
        /\ raised = "none"
        /\ exc = "none"
        /\ out # <<>> /\ out[Len(out)] = FooterPrints[1]

\* C6: when the report's usage is present all three token lines are shown,
\* each with the sub-field's literal value when it is known and N/A when it is
\* missing; when usage is absent no token line is shown.  (What a sub-field
\* stored as None shows is left open here.)
C6_TokenLines ==
    Rendered =>
        IF UsagePresent
        THEN \A k \in UsageKeys :
                /\ Cardinality(Stmts(k)) = 1
                /\ token_usage.d[k].t = "int" => Shown(The(k)) = IntStr(token_usage.d[k].n)
                /\ token_usage.d[k] = Missing => Shown(The(k)) = NAText
        ELSE \A k \in UsageKeys : Stmts(k) = {}

\* C7: the total-messages line is emitted exactly once and shows the number of
\* messages of the run; the tool-calls line is emitted iff the tool-call count
\* is greater than zero, and then shows that count.
C7_CountLines ==
    Rendered =>
        /\ Cardinality(Stmts("total_messages")) = 1
        /\ ParseInt(Shown(The("total_messages"))) = Len(RunMessages)
        /\ (Stmts("tool_calls") # {}) <=> (tool_calls_count > 0)
        /\ Cardinality(Stmts("tool_calls")) <= 1
        /\ \A i \in Stmts("tool_calls") : ParseInt(Shown(out[i])) = tool_calls_count

\* C7 witness: a rendering with both lines, two messages and three tool calls.
C7_Witness ==
    /\ Rendered
    /\ Len(RunMessages) = 2
    /\ tool_calls_count = 3
    /\ Shown(The("tool_calls")) = <<"3">>
    /\ Shown(The("total_messages")) = <<"2">>

\* The lines of a text: the pieces between consecutive line breaks.
Breaks(s) == {i \in 1..Len(s) : s[i] = "\n"}
BreakBefore(s, i) == SetMax({0} \cup {b \in Breaks(s) : b < i})
LineStarts(s) == {1} \cup {b + 1 : b \in Breaks(s)}
NthStart(s, n) == CHOOSE i \in LineStarts(s) : Cardinality({j \in LineStarts(s) : j < i}) = n - 1
NthLine(s, n) ==
    LET from == NthStart(s, n)
        later == {b \in Breaks(s) : b >= from}
        to == IF later = {} THEN Len(s) ELSE (CHOOSE b \in later : \A c \in later : b <= c) - 1
    IN  SubSeq(s, from, to)
NumLines(s) == Cardinality(Breaks(s)) + 1

IsBlank(l) == \A i \in 1..Len(l) : l[i] \in Whitespace
\* t is l without its leading and trailing whitespace.
IsTrimOf(t, l) ==
    /\ t # <<>>
    /\ t[1] \notin Whitespace
    /\ t[Len(t)] \notin Whitespace
    /\ \E a \in 0..Len(l) :
          /\ a + Len(t) <= Len(l)
          /\ t = SubSeq(l, a + 1, a + Len(t))
          /\ \A i \in (1..a) \cup ((a + Len(t) + 1)..Len(l)) : l[i] \in Whitespace

\* The prints between the answer title and the metadata title.
AnswerSection ==
    LET a == CHOOSE i \in Stmts("answer_title") : TRUE
        m == CHOOSE i \in Stmts("metadata_title") : TRUE
    IN  SubSeq(out, a + 1, m - 1)

NoResponseText ==
    <<"N", "o", " ", "r", "e", "s", "p", "o", "n", "s", "e", " ", "f", "o", "u", "n", "d">>
HasMarker(e) ==
    \E i \in 1..Len(e.text) :
        i + Len(NoResponseText) - 1 <= Len(e.text)
        /\ SubSeq(e.text, i, i + Len(NoResponseText) - 1) = NoResponseText

StartsWith(s, prefix) == Len(s) >= Len(prefix) /\ SubSeq(s, 1, Len(prefix)) = prefix

\* The terminal lines of the question section: what the print after the
\* question title writes.
QuestionLines == The("question").text

\* C9: for a question of n lines the question section is n lines, each starting
\* with the indentation prefix and carrying that line's text unchanged.
C9_QuestionIndentedPerLine ==
    Rendered =>
        /\ NumLines(QuestionLines) = NumLines(user_question)
        /\ \A n \in 1..NumLines(user_question) :
              \E colour \in {<<>>, <<"DARK_GREY">>} :
                  StartsWith(NthLine(QuestionLines, n),
                             colour \o Indent \o NthLine(user_question, n))

Collaborators == {"adapter", "tools", "agent"}

\* C10: format_agent_response is invoked at most once and only after the agent
\* invocation has returned; when a collaborator raises, nothing is rendered,
\* the matching except clause is taken, and the process ends with an error
\* message and exit code 1; a run in which nothing raises ends with exit code 0.
C10_MainErrorPaths ==
    /\ format_calls <= 1
    /\ format_calls = 1 => (Collaborators \subseteq returned /\ raised \notin Collaborators)
    /\ raised \in Collaborators =>
          /\ format_calls = 0
          /\ out = <<>>
          /\ pc \in {"except", "exited"}
          /\ pc = "except" => ENABLED (ExceptAuthenticationError \/ ExceptException)
          /\ pc = "exited" => (Len(errors) = 1 /\ exit_code = 1)
    /\ (token /\ raised = "none") =>
          /\ exit_code \in {-1, 0}
          /\ errors = <<>>
          /\ pc = "exited" => (exit_code = 0 /\ Rendered)

\* C10 witness: the agent invocation raised an authentication error after the
\* adapter and the tools came up, and the script has exited.
C10_Witness ==
    /\ pc = "exited"
    /\ raised = "agent"
    /\ exc = "AuthenticationError"
    /\ returned = {"adapter", "tools"}
    /\ exit_code = 1

\* C10 also covers the success path.
C10_SuccessReached == pc = "exited" /\ raised = "none" /\ token /\ exit_code = 0

====
